---- MODULE Spec2Model ----
(***************************************************************************)
(* A model of the branch-protection updater: the run driver, the batch     *)
(* scheduler updateBranchProtection, the per-repository task               *)
(* processRepository, the retry loop withExponentialBackoff and the        *)
(* BranchProtectionManager calls the task makes.                           *)
(*                                                                         *)
(* Spec       the whole run (token validation, listing, batches, report).  *)
(* SpecLive   the whole run when every call and every wait returns.        *)
(* SpecRetry  one call of withExponentialBackoff with any maxRetries.      *)
(* SpecItem   one call of processRepository, with what the API answered.   *)
(* SpecChecks repeated removal and simulation calls on one branch policy.   *)
(* SpecSanitize sanitizeErrorForLogging on one error message.              *)
(* SpecMalformed a dry run whose listing holds malformed repositories.      *)
(* SpecConfig the whole run with a concurrency option of 0 or less.        *)
(***************************************************************************)
EXTENDS Integers, Sequences, FiniteSets, TLC

VARIABLES
  pc,           \* position of run(): validate, list, await, batchDelay, done, returned, exit
  conc,         \* argv.concurrency
  dryRun,       \* DRY_RUN
  reporting,    \* REPORT_FILE is set (reportData is an array, not null)
  customChecks, \* CUSTOM_CHECKS is a list (TRUE) or null (FALSE)
  validRepos,   \* run(): validRepos, the repositories handed to the scheduler
  i,            \* updateBranchProtection: the loop index i
  updatedRepos, \* updateBranchProtection: the counter updatedRepos
  batches,      \* number of batches launched so far
  delays,       \* number of inter-batch delays started so far
  task,         \* one processRepository call per repository
  reportData,   \* the shared reportData array
  report,       \* the report object written by run()
  rs,           \* SpecRetry: the state of the withExponentialBackoff call
  obs           \* SpecRetry, SpecItem: what the operation or the API saw;
                \* SpecChecks: the policy on the server and the calls' results
                \* SpecSanitize: the error message and the text put in the report
                \* SpecMalformed: the listing as the API returned it

vars == <<pc, conc, dryRun, reporting, customChecks, validRepos, i,
          updatedRepos, batches, delays, task, reportData, report, rs, obs>>

runVars == <<pc, conc, dryRun, reporting, customChecks, validRepos, i,
             updatedRepos, batches, delays, task, reportData, report>>

\* ---------------------------------------------------------------- bounds
MaxItems == 3
MaxConc == 2
MaxMaxRetries == 3
MaxBatches == 4
MaxChecks == 2
MaxApplies == 2
MaxMsgLen == 4

\* ------------------------------------------------------ program constants
MAX_RETRIES == 5
INITIAL_BACKOFF_DELAY == 1000
DefaultConcurrency == 5
RateLimitBuffer == 1000
RateLimitFallback == 60000
GhpTokenLen == 36
PatIdLen == 22
PatSecretLen == 59

\* ------------------------------------------------------------ error values
\* An error thrown by a remote call: its status (0: no status field), whether
\* the response carries an x-ratelimit-reset header, the header's time minus
\* the current time in ms, and whether the message includes 'rate limit'.
\* The message field is a string, unless WithMessage says otherwise.
Err(name, status, hasReset, resetIn, rateLimitMsg) ==
  [name |-> name, status |-> status, hasReset |-> hasReset, resetIn |-> resetIn,
   rateLimitMsg |-> rateLimitMsg, message |-> "string"]

\* What the message field of a thrown value can be: a string, absent
\* (undefined), or a number other than 0 (truthy, and without the methods
\* of a string).
MessageKinds == {"string", "absent", "number"}
WithMessage(e, kind) == [e EXCEPT !.message = kind]

NoError == Err("none", 0, FALSE, 0, FALSE)
NotFound404 == Err("HttpError", 404, FALSE, 0, FALSE)
Forbidden403 == Err("HttpError", 403, FALSE, 0, FALSE)
RateLimit403Reset == Err("HttpError", 403, TRUE, 5000, TRUE)
RateLimit429Reset == Err("HttpError", 429, TRUE, 5000, TRUE)
RateLimit429Now == Err("HttpError", 429, TRUE, 0, TRUE)
RateLimit429JustPast == Err("HttpError", 429, TRUE, -500, TRUE)
RateLimit429Past == Err("HttpError", 429, TRUE, -1000, TRUE)
RateLimit429LongPast == Err("HttpError", 429, TRUE, -2000, TRUE)
SecondaryLimit403 == Err("HttpError", 403, FALSE, 0, TRUE)
Validation422 == Err("HttpError", 422, FALSE, 0, FALSE)
Validation422Reset == Err("HttpError", 422, TRUE, 5000, FALSE)
ServerError500 == Err("HttpError", 500, FALSE, 0, FALSE)
BadGateway502 == Err("HttpError", 502, FALSE, 0, FALSE)
Unavailable503 == Err("HttpError", 503, FALSE, 0, FALSE)
Timeout504 == Err("HttpError", 504, FALSE, 0, FALSE)
NetworkError == Err("Error", 0, FALSE, 0, FALSE)
TypeError == Err("TypeError", 0, FALSE, 0, FALSE)

\* The errors an operation handed to withExponentialBackoff may throw.
Errors ==
  {NotFound404, Forbidden403, RateLimit403Reset, RateLimit429Reset, RateLimit429Now,
   RateLimit429JustPast, RateLimit429Past, RateLimit429LongPast, SecondaryLimit403, Validation422, Validation422Reset, ServerError500,
   BadGateway502, Unavailable503, Timeout504, NetworkError, TypeError}

\* The errors the remote API answers a call of the run with.
RemoteErrors ==
  {NotFound404, Forbidden403, RateLimit403Reset, Validation422, Unavailable503}

\* ------------------------------------------------- withExponentialBackoff
NoValue == "none"
Undefined == "undefined"
Values == {"v1", "v2"}
InitialDelays == {100, INITIAL_BACKOFF_DELAY}

IdleRetry ==
  [pc |-> "idle", retries |-> 0, maxRetries |-> 0, initialDelay |-> 0,
   lastError |-> NoError, waitMs |-> 0, thrown |-> NoError, value |-> NoValue]

\* let retries = 0; while (retries <= maxRetries) { try { return await fn() ...
\* With maxRetries < 0 the loop body never runs and the call returns undefined.
RetryStart(maxRetries, initialDelay) ==
  IF 0 <= maxRetries
  THEN [IdleRetry EXCEPT !.pc = "call", !.maxRetries = maxRetries,
                         !.initialDelay = initialDelay]
  ELSE [IdleRetry EXCEPT !.pc = "returned", !.maxRetries = maxRetries,
                         !.initialDelay = initialDelay, !.value = Undefined]

\* return await fn();
OnSuccess(r, v) == [r EXCEPT !.pc = "returned", !.value = v]

\* Mutant: the wait is max(resetTime - now, 0) plus the buffer.
RateLimitWaitClamped(e) ==
  (IF e.resetIn > 0 THEN e.resetIn ELSE 0) + RateLimitBuffer

\* Mutant: no buffer is added to the time left until the reset.
RateLimitWaitNoBuffer(e) == IF e.resetIn > 0 THEN e.resetIn ELSE RateLimitFallback

\* (new Date(resetTime * 1000) - new Date()) + 1000; waitTime > 0 ? waitTime : 60000
RateLimitWait(e) ==
  LET waitTime == e.resetIn + RateLimitBuffer
  IN  IF waitTime > 0 THEN waitTime ELSE RateLimitFallback

\* Mutant: the backoff grows linearly.
BackoffDelayLinear(initialDelay, retries) == initialDelay * (retries + 1)

\* initialDelay * Math.pow(2, retries)
BackoffDelay(initialDelay, retries) == initialDelay * (2 ^ retries)

IsTransientStatus(status) == status = 502 \/ status = 503 \/ status = 504

\* The catch block up to the delay: classify the error and either start a
\* wait or rethrow it.
OnFailure(r, e) ==
  IF e.hasReset
  THEN [r EXCEPT !.pc = "wait", !.lastError = e, !.waitMs = RateLimitWait(e)]
  ELSE IF e.status = 403 /\ e.message = "number"
  THEN [r EXCEPT !.pc = "threw", !.lastError = e, !.thrown = TypeError]
  ELSE IF e.status = 403 /\ e.rateLimitMsg
  THEN [r EXCEPT !.pc = "wait", !.lastError = e,
                 !.waitMs = BackoffDelay(r.initialDelay, r.retries)]
  ELSE IF IsTransientStatus(e.status)
  THEN [r EXCEPT !.pc = "wait", !.lastError = e,
                 !.waitMs = BackoffDelay(r.initialDelay, r.retries)]
  ELSE [r EXCEPT !.pc = "threw", !.lastError = e, !.thrown = e]

\* Mutant: exhaustion throws a fresh error instead of the last one.
ExhaustedThrowFresh(r) == NetworkError

\* What is thrown once the retries are used up: throw lastError.
ExhaustedThrow(r) == r.lastError

\* Mutant: the bound test is retries >= maxRetries.
AfterWaitOffByOne(r) ==
  LET n == r.retries + 1
  IN  IF n >= r.maxRetries
      THEN [r EXCEPT !.retries = n, !.pc = "threw", !.thrown = r.lastError]
      ELSE [r EXCEPT !.retries = n, !.pc = "call", !.lastError = NoError,
                     !.waitMs = 0]

\* Mutant: a rate-limit wait with a reset time is not counted as a retry.
AfterWaitFreeRateLimit(r) ==
  LET n == IF r.lastError.hasReset THEN r.retries ELSE r.retries + 1
  IN  IF n > r.maxRetries
      THEN [r EXCEPT !.retries = n, !.pc = "threw", !.thrown = r.lastError]
      ELSE [r EXCEPT !.retries = n, !.pc = "call", !.lastError = NoError,
                     !.waitMs = 0]

\* After the delay: retries++; if (retries > maxRetries) throw lastError;
\* otherwise the loop calls fn again.  lastError is dead while fn runs (line
\* 276 overwrites it before any read), so the model clears it there.
AfterWait(r) ==
  LET n == r.retries + 1
  IN  IF n > r.maxRetries
      THEN [r EXCEPT !.retries = n, !.pc = "threw", !.thrown = ExhaustedThrow(r)]
      ELSE [r EXCEPT !.retries = n, !.pc = "call", !.lastError = NoError,
                     !.waitMs = 0]

\* What the operation of a lone withExponentialBackoff call has seen so far,
\* and the time in ms that passed since its last failure was caught.
IdleObs ==
  [calls |-> 0, failures |-> 0, transientOnly |-> TRUE, last |-> NoError,
   result |-> NoValue, elapsed |-> 0]

\* delay(ms) is a setTimeout: it resolves after ms, or later than that.
TimerLateness == {0, 50}

\* ------------------------------------------------ BranchProtectionManager
\* What the remote API answers a call with: the policy data (with or without
\* configured status checks) or an error.
Ok(hasChecks) == [ok |-> TRUE, hasChecks |-> hasChecks, err |-> NoError]
Failed(e) == [ok |-> FALSE, hasChecks |-> FALSE, err |-> e]
GetResponses == {Ok(h) : h \in BOOLEAN} \cup {Failed(e) : e \in RemoteErrors}
PutResponses == {Ok(FALSE)} \cup {Failed(e) : e \in RemoteErrors}

\* Mutant: a 404 is thrown like any other error.
GetBranchProtectionThrows404(resp) ==
  IF resp.ok
  THEN [ret |-> "data", hasChecks |-> resp.hasChecks, err |-> NoError]
  ELSE IF resp.err.status = 403
  THEN [ret |-> "undefined", hasChecks |-> FALSE, err |-> NoError]
  ELSE [ret |-> "throw", hasChecks |-> FALSE, err |-> resp.err]

\* _getBranchProtection: the data, undefined for a 404 or a 403, or a throw.
GetBranchProtection(resp) ==
  IF resp.ok
  THEN [ret |-> "data", hasChecks |-> resp.hasChecks, err |-> NoError]
  ELSE IF resp.err.status = 404
  THEN [ret |-> "undefined", hasChecks |-> FALSE, err |-> NoError]
  ELSE IF resp.err.status = 403
  THEN [ret |-> "undefined", hasChecks |-> FALSE, err |-> NoError]
  ELSE [ret |-> "throw", hasChecks |-> FALSE, err |-> resp.err]

\* checksToRemove.length is read only when the policy has status checks
\* (simulate: line 75, remove: line 125); with checksToRemove null (no custom
\* checks: the default [] applies to undefined only) the read throws.
FilterThrows(g) == g.ret = "data" /\ g.hasChecks /\ ~customChecks

\* removeChecksFromBranchProtection reads checksToRemove.length again after
\* the write (line 152).
AfterWriteThrows == ~customChecks

\* ------------------------------------------------------ processRepository
\* An entry of reportData; only a 'skipped' entry has a reason field.
NoReason == "none"
SkippedReason == "No branch protection found"
Entry(repo, status) ==
  [repository |-> repo, status |-> status,
   reason |-> IF status = "skipped" THEN SkippedReason ELSE NoReason]

IdleTask ==
  [pc |-> "idle", rs |-> IdleRetry, result |-> "none", status |-> "none",
   wrote |-> FALSE]

\* The outcome of one step of a task: its next state and what it appends to
\* reportData.
Out(tk, push) == [task |-> tk, push |-> push]

Settle(tk, result, status) ==
  [tk EXCEPT !.pc = "done", !.rs = IdleRetry, !.result = result, !.status = status]

\* processRepository up to its first await: await delay(THROTTLE_DELAY).
StartTask(tk) == [tk EXCEPT !.pc = "throttle"]

\* The throttle delay is over: the protection lookup starts under the retry loop.
AfterThrottle(tk) ==
  [tk EXCEPT !.pc = "lookup", !.rs = RetryStart(MAX_RETRIES, INITIAL_BACKOFF_DELAY)]

\* Mutant: the catch block rethrows, so the task's promise rejects.
CatchErrorRethrows(tk, repo, e) == Out(Settle(tk, "rejected", "none"), <<>>)

\* sanitizeErrorForLogging calls sanitized.message.replace when the message is
\* truthy: a TypeError for a message that is not a string.
SanitizeThrows(e) == e.message = "number"

\* The catch block of processRepository: an 'error' entry, resolve to false;
\* what sanitizeErrorForLogging throws leaves the catch block and rejects the
\* promise.
CatchError(tk, repo, e) ==
  IF SanitizeThrows(e)
  THEN Out(Settle(tk, "rejected", "none"), <<>>)
  ELSE Out(Settle(tk, "false", "error"), <<Entry(repo, "error")>>)

\* The operation under withExponentialBackoff threw e: wait, or give up and
\* land in the catch block.
FnFailed(tk, repo, e, waitPc) ==
  LET r2 == OnFailure(tk.rs, e)
  IN  IF r2.pc = "threw"
      THEN CatchError(tk, repo, r2.thrown)
      ELSE Out([tk EXCEPT !.pc = waitPc, !.rs = r2], <<>>)

\* The retry delay is over: call again, or throw the last error.
WaitDone(tk, repo, callPc) ==
  LET r2 == AfterWait(tk.rs)
  IN  IF r2.pc = "threw"
      THEN CatchError(tk, repo, r2.thrown)
      ELSE Out([tk EXCEPT !.pc = callPc, !.rs = r2], <<>>)

\* Mutant: the DRY_RUN test is missing, the changes are always applied.
AfterLookupAlwaysApplies(tk, repo, g) ==
  IF g.ret = "undefined"
  THEN Out(Settle(tk, "true", "skipped"), <<Entry(repo, "skipped")>>)
  ELSE Out([tk EXCEPT !.pc = "applyGet",
                      !.rs = RetryStart(MAX_RETRIES, INITIAL_BACKOFF_DELAY)], <<>>)

\* Lines 350-403 and 407: what follows the lookup's result protectionBefore.
AfterLookup(tk, repo, g) ==
  IF g.ret = "undefined"
  THEN Out(Settle(tk, "true", "skipped"), <<Entry(repo, "skipped")>>)
  ELSE IF dryRun
  THEN Out([tk EXCEPT !.pc = "simulate", !.rs = IdleRetry], <<>>)
  ELSE Out([tk EXCEPT !.pc = "applyGet",
                      !.rs = RetryStart(MAX_RETRIES, INITIAL_BACKOFF_DELAY)], <<>>)

LookupReturns(tk, repo, resp) ==
  LET g == GetBranchProtection(resp)
  IN  IF g.ret = "throw"
      THEN FnFailed(tk, repo, g.err, "lookupWait")
      ELSE AfterLookup(tk, repo, g)

\* simulateRemovingChecks is awaited outside the retry loop.
SimulateReturns(tk, repo, resp) ==
  LET g == GetBranchProtection(resp)
  IN  IF g.ret = "throw"
      THEN CatchError(tk, repo, g.err)
      ELSE IF FilterThrows(g)
      THEN CatchError(tk, repo, TypeError)
      ELSE Out(Settle(tk, "true", "simulated"), <<Entry(repo, "simulated")>>)

\* removeChecksFromBranchProtection: its own lookup, then the write.
ApplyGetReturns(tk, repo, resp) ==
  LET g == GetBranchProtection(resp)
  IN  IF g.ret = "throw"
      THEN FnFailed(tk, repo, g.err, "applyWait")
      ELSE IF FilterThrows(g)
      THEN FnFailed(tk, repo, TypeError, "applyWait")
      ELSE Out([tk EXCEPT !.pc = "applyPut"], <<>>)

\* Mutant: the 'updated' entry is pushed before the awaited write is known to
\* have succeeded, so a failed attempt leaves an entry behind.
ApplyPutPushesFirst(tk, repo, resp) ==
  LET o == IF ~resp.ok
           THEN FnFailed(tk, repo, resp.err, "applyWait")
           ELSE IF AfterWriteThrows
           THEN FnFailed([tk EXCEPT !.wrote = TRUE], repo, TypeError, "applyWait")
           ELSE Out(Settle([tk EXCEPT !.wrote = TRUE], "true", "updated"), <<>>)
  IN  Out(o.task, <<Entry(repo, "updated")>> \o o.push)

\* The write returned: the 'updated' entry is pushed inside the retried
\* operation, after the awaited call.
ApplyPutReturns(tk, repo, resp) ==
  IF ~resp.ok
  THEN FnFailed(tk, repo, resp.err, "applyWait")
  ELSE IF AfterWriteThrows
  THEN FnFailed([tk EXCEPT !.wrote = TRUE], repo, TypeError, "applyWait")
  ELSE Out(Settle([tk EXCEPT !.wrote = TRUE], "true", "updated"),
           <<Entry(repo, "updated")>>)

\* ------------------------------------------------- updateBranchProtection
\* argv.concurrency || 5
MAX_CONCURRENCY == IF conc = 0 THEN DefaultConcurrency ELSE conc

\* Mutant: the slice takes one repository too many.
BatchOneTooMany(i0, n) == {t \in 1..n : i0 < t /\ t <= i0 + MAX_CONCURRENCY + 1}

\* Array.prototype.slice: a negative index counts from the end of the array,
\* and an index is clamped to 0..n.
SliceIndex(k, n) ==
  IF k < 0 THEN (IF n + k < 0 THEN 0 ELSE n + k) ELSE (IF k > n THEN n ELSE k)

\* repos.slice(i, i + MAX_CONCURRENCY), as indices 1..n into validRepos
Batch(i0, n) ==
  {t \in 1..n : SliceIndex(i0, n) < t /\ t <= SliceIndex(i0 + MAX_CONCURRENCY, n)}

\* batch.map(processRepository): every task of the batch runs to its first await.
Launch(tsk, i0, n) ==
  [t \in DOMAIN tsk |-> IF t \in Batch(i0, n) THEN StartTask(tsk[t]) ELSE tsk[t]]

\* Mutant: the scheduler goes on as soon as one promise of the batch settled.
BatchDoneAny(b) == \E t \in b : task[t].pc = "done"

\* Mutant: only the first promise of the batch is awaited.
BatchDoneFirstOnly(b) == \A t \in b : (\A u \in b : t <= u) => task[t].pc = "done"

\* Promise.all(promises) is fulfilled when every promise is.
BatchDone(b) == \A t \in b : task[t].pc = "done"

\* Promise.all(promises) rejects as soon as one promise does.
BatchRejected(b) == \E t \in b : task[t].pc = "done" /\ task[t].result = "rejected"

\* Mutant: every settled promise is counted (results.length).
SuccessesCountsAll(b) == Cardinality(b)

\* results.filter(result => result).length
Successes(b) == Cardinality({t \in b : task[t].result = "true"})

\* Mutant: the delay is taken after every batch.
MoreBatchesAlways(i0, n) == TRUE

\* i + MAX_CONCURRENCY < repos.length: another batch follows, so delay.
MoreBatches(i0, n) == i0 + MAX_CONCURRENCY < n

\* -------------------------------------------------------------------- run
CountStatus(rd, status) == Cardinality({k \in 1..Len(rd) : rd[k].status = status})

NoReport ==
  [written |-> FALSE, totalRepositories |-> 0, repositoriesUpdated |-> 0,
   repositoriesWithErrors |-> 0, repositoriesSkipped |-> 0, details |-> <<>>]

BuildReport(n, updated, rd) ==
  [written |-> TRUE, totalRepositories |-> n, repositoriesUpdated |-> updated,
   repositoriesWithErrors |-> CountStatus(rd, "error"),
   repositoriesSkipped |-> CountStatus(rd, "skipped"), details |-> rd]

\* Mutant: the loop test is i <= repos.length.
LoopFromInclusive(i0, n, tsk, upd) ==
  /\ i' = i0
  /\ updatedRepos' = upd
  /\ IF i0 <= n
     THEN /\ task' = Launch(tsk, i0, n)
          /\ batches' = batches + 1
          /\ pc' = "await"
          /\ UNCHANGED report
     ELSE /\ task' = tsk
          /\ pc' = "done"
          /\ report' = IF reporting THEN BuildReport(n, upd, reportData) ELSE NoReport
          /\ UNCHANGED batches

\* Mutant: the loop is left after the first batch.
LoopFromOneBatch(i0, n, tsk, upd) ==
  /\ i' = i0
  /\ updatedRepos' = upd
  /\ IF i0 < n /\ i0 = 0
     THEN /\ task' = Launch(tsk, i0, n)
          /\ batches' = batches + 1
          /\ pc' = "await"
          /\ UNCHANGED report
     ELSE /\ task' = tsk
          /\ pc' = "done"
          /\ report' = IF reporting THEN BuildReport(n, upd, reportData) ELSE NoReport
          /\ UNCHANGED batches

\* The for statement from its test on: launch the batch at i0, or leave the
\* loop, return the count to run() and write the report.
LoopFrom(i0, n, tsk, upd) ==
  /\ i' = i0
  /\ updatedRepos' = upd
  /\ IF i0 < n
     THEN /\ task' = Launch(tsk, i0, n)
          /\ batches' = batches + 1
          /\ pc' = "await"
          /\ UNCHANGED report
     ELSE /\ task' = tsk
          /\ pc' = "done"
          /\ report' = IF reporting THEN BuildReport(n, upd, reportData) ELSE NoReport
          /\ UNCHANGED batches

Init ==
  /\ pc = "validate"
  /\ conc \in 1..MaxConc
  /\ dryRun \in BOOLEAN
  /\ reporting \in BOOLEAN
  /\ customChecks \in BOOLEAN
  /\ validRepos = <<>> /\ i = 0 /\ updatedRepos = 0
  /\ batches = 0 /\ delays = 0 /\ task = <<>> /\ reportData = <<>>
  /\ report = NoReport
  /\ rs = IdleRetry /\ obs = IdleObs

\* validateToken resolved: an invalid token ends the process, a valid one
\* starts the listing.
ValidateTokenReturns ==
  /\ pc = "validate"
  /\ \E valid \in BOOLEAN : pc' = IF valid THEN "list" ELSE "exit"
  /\ UNCHANGED <<conc, dryRun, reporting, customChecks, validRepos, i,
                 updatedRepos, batches, delays, task, reportData, report, rs, obs>>

\* listRepositories resolved (a failed listing is logged and resolves to [];
\* obs keeps the error the listing call threw): run returns on an empty list; else the filter keeps the n repositories of the list that
\* have a name and a default branch (validRepos; n = 0 when the list holds
\* malformed repositories only) and the scheduler is entered.
ListReturns ==
  /\ pc = "list"
  /\ \E ok \in BOOLEAN, n \in 0..MaxItems, malformedOnly \in BOOLEAN :
       IF ~ok \/ (n = 0 /\ ~malformedOnly)
       THEN /\ pc' = "returned"
            /\ IF ok THEN obs' = obs
               ELSE \E e \in RemoteErrors :
                      obs' = [obs EXCEPT !.calls = 1, !.failures = 1, !.last = e]
            /\ UNCHANGED <<validRepos, i, updatedRepos, batches, task, report>>
       ELSE /\ validRepos' = [k \in 1..n |-> k]
            /\ LoopFrom(0, n, [k \in 1..n |-> IdleTask], 0)
            /\ obs' = obs
  /\ UNCHANGED <<conc, dryRun, reporting, customChecks, delays, reportData, rs>>

\* Promise.all settled: count the batch, then delay before the next batch or
\* finish; a rejected promise lands in run()'s catch: process.exit(1).
BatchSettles ==
  /\ pc = "await"
  /\ LET n == Len(validRepos)
         b == Batch(i, n)
     IN  /\ BatchDone(b) \/ BatchRejected(b)
         /\ IF BatchRejected(b)
            THEN /\ pc' = "exit"
                 /\ UNCHANGED <<i, updatedRepos, batches, delays, task, report>>
            ELSE IF MoreBatches(i, n)
            THEN /\ pc' = "batchDelay"
                 /\ updatedRepos' = updatedRepos + Successes(b)
                 /\ delays' = delays + 1
                 /\ UNCHANGED <<i, batches, task, report>>
            ELSE /\ LoopFrom(i + MAX_CONCURRENCY, n, task, updatedRepos + Successes(b))
                 /\ UNCHANGED delays
  /\ UNCHANGED <<conc, dryRun, reporting, customChecks, validRepos,
                 reportData, rs, obs>>

\* delay(THROTTLE_DELAY * 2) is over: i += MAX_CONCURRENCY and the next batch.
\* The model follows the loop for MaxBatches batches.
DelayElapses ==
  /\ pc = "batchDelay"
  /\ batches < MaxBatches
  /\ LoopFrom(i + MAX_CONCURRENCY, Len(validRepos), task, updatedRepos)
  /\ UNCHANGED <<conc, dryRun, reporting, customChecks, validRepos,
                 delays, reportData, rs, obs>>

\* A task's step took effect: its new state and its report entries.
Apply(t, out) ==
  /\ task' = [task EXCEPT ![t] = out.task]
  /\ reportData' = IF reporting THEN reportData \o out.push ELSE reportData
  /\ UNCHANGED <<pc, conc, dryRun, reporting, customChecks, validRepos,
                 i, updatedRepos, batches, delays, report, rs, obs>>

Running == pc \notin {"exit", "done", "returned"}

ThrottleElapses(t) ==
  /\ Running /\ task[t].pc = "throttle"
  /\ Apply(t, Out(AfterThrottle(task[t]), <<>>))

LookupCall(t) ==
  /\ Running /\ task[t].pc = "lookup"
  /\ \E resp \in GetResponses : Apply(t, LookupReturns(task[t], validRepos[t], resp))

LookupWait(t) ==
  /\ Running /\ task[t].pc = "lookupWait"
  /\ Apply(t, WaitDone(task[t], validRepos[t], "lookup"))

SimulateCall(t) ==
  /\ Running /\ task[t].pc = "simulate"
  /\ \E resp \in GetResponses : Apply(t, SimulateReturns(task[t], validRepos[t], resp))

ApplyGetCall(t) ==
  /\ Running /\ task[t].pc = "applyGet"
  /\ \E resp \in GetResponses : Apply(t, ApplyGetReturns(task[t], validRepos[t], resp))

ApplyPutCall(t) ==
  /\ Running /\ task[t].pc = "applyPut"
  /\ \E resp \in PutResponses : Apply(t, ApplyPutReturns(task[t], validRepos[t], resp))

ApplyWait(t) ==
  /\ Running /\ task[t].pc = "applyWait"
  /\ Apply(t, WaitDone(task[t], validRepos[t], "applyGet"))

Next ==
  \/ ValidateTokenReturns
  \/ ListReturns
  \/ BatchSettles
  \/ DelayElapses
  \/ \E t \in DOMAIN task : ThrottleElapses(t)
  \/ \E t \in DOMAIN task : LookupCall(t)
  \/ \E t \in DOMAIN task : LookupWait(t)
  \/ \E t \in DOMAIN task : SimulateCall(t)
  \/ \E t \in DOMAIN task : ApplyGetCall(t)
  \/ \E t \in DOMAIN task : ApplyPutCall(t)
  \/ \E t \in DOMAIN task : ApplyWait(t)

Spec == Init /\ [][Next]_vars

\* The run when every remote call and every timer eventually resolves, with
\* a report asked for, either applying custom checks or simulating the removal
\* of the default ones.
LiveInit ==
  /\ pc = "validate"
  /\ conc \in 1..MaxConc
  /\ reporting = TRUE
  /\ dryRun \in BOOLEAN
  /\ customChecks = ~dryRun
  /\ validRepos = <<>> /\ i = 0 /\ updatedRepos = 0
  /\ batches = 0 /\ delays = 0 /\ task = <<>> /\ reportData = <<>>
  /\ report = NoReport
  /\ rs = IdleRetry /\ obs = IdleObs

SpecLive == LiveInit /\ [][Next]_vars /\ WF_vars(Next)

\* ---------------------------------------------------------- SpecMalformed
\* A dry run whose listing holds a repository without a name or without a
\* default branch.  obs.listing is the list as returned: for each repository
\* whether it has its name and its default branch.
Repo(hasName, hasBranch) == [name |-> hasName, defaultBranch |-> hasBranch]
WellFormed(r) == r.name /\ r.defaultBranch
ListedRepos == {Repo(TRUE, TRUE), Repo(FALSE, TRUE), Repo(TRUE, FALSE)}
Listings ==
  {l \in UNION {[1..k -> ListedRepos] : k \in 1..MaxItems} :
     \E k \in DOMAIN l : ~WellFormed(l[k])}

\* Mutant: the filter keeps every repository of the list.
ValidIndicesKeepsAll(l) == [k \in 1..Len(l) |-> k]

\* repos.filter(repo => repo.name && repo.defaultBranch), as the positions in
\* the listing of the repositories that are kept.
ValidIndices(l) ==
  LET Kept(k) == WellFormed(l[k])
  IN  SelectSeq([k \in 1..Len(l) |-> k], Kept)

MalformedInit ==
  /\ pc = "validate"
  /\ conc \in 1..MaxConc
  /\ dryRun = TRUE
  /\ reporting \in BOOLEAN
  /\ customChecks = TRUE
  /\ validRepos = <<>> /\ i = 0 /\ updatedRepos = 0
  /\ batches = 0 /\ delays = 0 /\ task = <<>> /\ reportData = <<>>
  /\ report = NoReport
  /\ rs = IdleRetry /\ obs = [listing |-> <<>>]

\* listRepositories resolved with a list that holds malformed repositories:
\* the filter drops them with a warning and the scheduler is entered.
ListMalformedReturns ==
  /\ pc = "list"
  /\ \E l \in Listings :
       /\ obs' = [obs EXCEPT !.listing = l]
       /\ validRepos' = ValidIndices(l)
       /\ LoopFrom(0, Len(ValidIndices(l)), [k \in 1..Len(ValidIndices(l)) |-> IdleTask], 0)
  /\ UNCHANGED <<conc, dryRun, reporting, customChecks, delays, reportData, rs>>

MalformedNext ==
  \/ ValidateTokenReturns
  \/ ListMalformedReturns
  \/ BatchSettles
  \/ DelayElapses
  \/ \E t \in DOMAIN task : ThrottleElapses(t)
  \/ \E t \in DOMAIN task : LookupCall(t)
  \/ \E t \in DOMAIN task : LookupWait(t)
  \/ \E t \in DOMAIN task : SimulateCall(t)

SpecMalformed == MalformedInit /\ [][MalformedNext]_vars

\* ------------------------------------------------------------- SpecConfig
\* The run when --concurrency is 0 or a negative number.
ConfigInit ==
  /\ pc = "validate"
  /\ conc \in (0 - MaxConc)..0
  /\ dryRun \in BOOLEAN
  /\ reporting \in BOOLEAN
  /\ customChecks \in BOOLEAN
  /\ validRepos = <<>> /\ i = 0 /\ updatedRepos = 0
  /\ batches = 0 /\ delays = 0 /\ task = <<>> /\ reportData = <<>>
  /\ report = NoReport
  /\ rs = IdleRetry /\ obs = IdleObs

SpecConfig == ConfigInit /\ [][Next]_vars

\* ------------------------------------------------------------- SpecRetry
IsRetryableKind(e) ==
  e.hasReset \/ (e.status = 403 /\ e.rateLimitMsg) \/ e.status \in {502, 503, 504}

RetryInit ==
  /\ pc = "idle" /\ conc = 1 /\ dryRun = FALSE /\ reporting = FALSE
  /\ customChecks = FALSE /\ validRepos = <<>> /\ i = 0
  /\ updatedRepos = 0 /\ batches = 0 /\ delays = 0 /\ task = <<>>
  /\ reportData = <<>> /\ report = NoReport
  /\ \E m \in 0..MaxMaxRetries, d \in InitialDelays : rs = RetryStart(m, d)
  /\ obs = IdleObs

\* The operation returns a value.
OpSucceeds ==
  /\ rs.pc = "call"
  /\ \E v \in Values :
       /\ rs' = OnSuccess(rs, v)
       /\ obs' = [obs EXCEPT !.calls = @ + 1, !.result = v]
  /\ UNCHANGED runVars

\* The operation throws.
OpFails ==
  /\ rs.pc = "call"
  /\ \E e \in Errors :
       /\ rs' = OnFailure(rs, e)
       /\ obs' = [obs EXCEPT !.calls = @ + 1, !.failures = @ + 1, !.last = e,
                             !.transientOnly = @ /\ IsRetryableKind(e),
                             !.elapsed = 0]
  /\ UNCHANGED runVars

\* The delay of the catch block elapses.
WaitElapses ==
  /\ rs.pc = "wait"
  /\ rs' = AfterWait(rs)
  /\ \E late \in TimerLateness : obs' = [obs EXCEPT !.elapsed = rs.waitMs + late]
  /\ UNCHANGED runVars

RetryNext == OpSucceeds \/ OpFails \/ WaitElapses

SpecRetry == RetryInit /\ [][RetryNext]_vars

\* ------------------------------------------------------------- SpecChecks
\* The status checks of one branch policy under removeChecksFromBranchProtection
\* and simulateRemovingChecks, every remote call succeeding.
POLICY == "Khulnasoft Smart Policy"
INSIGHTS == "Khulnasoft Insights"
Contexts == {POLICY, INSIGHTS, "CI Build", "Lint"}

Range(q) == {q[k] : k \in DOMAIN q}

\* The lists of check contexts of up to MaxChecks elements.
CheckLists == UNION {[1..k -> Contexts] : k \in 0..MaxChecks}

\* required_status_checks of a policy: absent (null, or no checks field), or
\* present with its checks, of which only the context is read.
NoStatusChecks == [present |-> FALSE, checks |-> <<>>]
StatusChecks(l) == [present |-> TRUE, checks |-> l]
Policies == {NoStatusChecks} \cup {StatusChecks(l) : l \in CheckLists}

\* checksToRemove as processRepository passes it: null, or the --checks list.
NullChecks == [isNull |-> TRUE, list |-> <<>>]
CustomChecks(l) == [isNull |-> FALSE, list |-> l]
Removals == {NullChecks} \cup {CustomChecks(l) : l \in CheckLists}

\* A list-valued field of a result or of a report entry, or undefined.
NoList == [defined |-> FALSE, list |-> <<>>]
List(l) == [defined |-> TRUE, list |-> l]

\* checksToRemove.length ? checksToRemove : [POLICY, INSIGHTS]
ChecksToFilter(l) == IF Len(l) > 0 THEN l ELSE <<POLICY, INSIGHTS>>

\* Mutant: only the first check that matches is taken out.
FilterChecksFirstOnly(checks, filter) ==
  LET hits == {k \in DOMAIN checks : checks[k] \in Range(filter)}
  IN  IF hits = {} THEN checks
      ELSE LET h == CHOOSE k \in hits : \A m \in hits : k <= m
           IN  [k \in 1..(Len(checks) - 1) |-> IF k < h THEN checks[k] ELSE checks[k + 1]]

\* statusChecks.checks.filter(check => !checksToFilter.includes(check.context))
FilterChecks(checks, filter) ==
  LET Keep(c) == c \notin Range(filter) IN SelectSeq(checks, Keep)

\* Mutant: an empty check list is kept where null is due.
FilteredKeepsEmpty(p, filter) == StatusChecks(FilterChecks(p.checks, filter))

\* The required_status_checks written or simulated: the filtered checks, or
\* null when none is left.
Filtered(p, filter) ==
  LET f == FilterChecks(p.checks, filter)
  IN  IF Len(f) > 0 THEN StatusChecks(f) ELSE NoStatusChecks

HasChecks(p) == p.present /\ Len(p.checks) > 0

\* removeChecksFromBranchProtection on the policy p: whether it threw, whether
\* the write was made and with which required_status_checks, and the
\* removedChecks and remainingChecks of the returned result.
RemoveChecks(p, ctr) ==
  IF HasChecks(p) /\ ctr.isNull
  THEN [threw |-> TRUE, wrote |-> FALSE, written |-> NoStatusChecks,
        removedChecks |-> NoList, remainingChecks |-> NoList]
  ELSE LET written == IF HasChecks(p) THEN Filtered(p, ChecksToFilter(ctr.list))
                      ELSE NoStatusChecks
       IN  IF ctr.isNull
           THEN [threw |-> TRUE, wrote |-> TRUE, written |-> written,
                 removedChecks |-> NoList, remainingChecks |-> NoList]
           ELSE [threw |-> FALSE, wrote |-> TRUE, written |-> written,
                 removedChecks |-> List(ChecksToFilter(ctr.list)),
                 remainingChecks |->
                   List(IF p.present
                        THEN FilterChecks(p.checks, ChecksToFilter(ctr.list))
                        ELSE <<>>)]

\* simulateRemovingChecks on the policy p: whether it threw and the simulated
\* required_status_checks; the returned object has the fields message,
\* original and simulated only.
SimulateRemovingChecks(p, ctr) ==
  IF ~HasChecks(p)
  THEN [threw |-> FALSE, wrote |-> FALSE, written |-> p,
        removedChecks |-> NoList, remainingChecks |-> NoList]
  ELSE IF ctr.isNull
  THEN [threw |-> TRUE, wrote |-> FALSE, written |-> NoStatusChecks,
        removedChecks |-> NoList, remainingChecks |-> NoList]
  ELSE [threw |-> FALSE, wrote |-> FALSE,
        written |-> Filtered(p, ChecksToFilter(ctr.list)),
        removedChecks |-> NoList, remainingChecks |-> NoList]

\* The entry processRepository pushes for the result res of a call: changes is
\* res.removedChecks and checksRemaining is res.remainingChecks.
NoDetail == [status |-> "none", changes |-> NoList, checksRemaining |-> NoList]
Detail(status, res) ==
  IF res.threw
  THEN [status |-> "error", changes |-> NoList, checksRemaining |-> NoList]
  ELSE [status |-> status, changes |-> res.removedChecks,
        checksRemaining |-> res.remainingChecks]

\* obs: the policy on the server, at first and now, checksToRemove, the
\* policy before the latest call, the call's kind and result, the entry pushed for it, the number of
\* removal calls so far and what the first of them wrote.
ChecksInit ==
  /\ pc = "checks"
  /\ conc = 1 /\ dryRun = FALSE /\ reporting = TRUE
  /\ customChecks \in BOOLEAN
  /\ validRepos = <<1>> /\ i = 0 /\ updatedRepos = 0
  /\ batches = 0 /\ delays = 0 /\ task = <<>> /\ reportData = <<>>
  /\ report = NoReport
  /\ rs = IdleRetry
  /\ \E p \in Policies, ctr \in Removals :
       /\ ctr.isNull = ~customChecks
       /\ obs = [initial |-> p, policy |-> p, checksToRemove |-> ctr, before |-> p, call |-> "none",
                 res |-> SimulateRemovingChecks(NoStatusChecks, ctr),
                 entry |-> NoDetail, applies |-> 0, first |-> NoStatusChecks]

\* One removeChecksFromBranchProtection call; the server keeps what is written.
ChecksApply ==
  /\ obs.applies < MaxApplies
  /\ LET res == RemoveChecks(obs.policy, obs.checksToRemove)
     IN  obs' = [obs EXCEPT !.before = obs.policy, !.call = "apply", !.res = res,
                            !.policy = IF res.wrote THEN res.written ELSE @,
                            !.entry = Detail("updated", res),
                            !.applies = @ + 1,
                            !.first = IF obs.applies = 0 THEN res.written ELSE @]
  /\ UNCHANGED <<runVars, rs>>

\* One simulateRemovingChecks call.
ChecksSimulate ==
  /\ obs.call # "simulate"
  /\ LET res == SimulateRemovingChecks(obs.policy, obs.checksToRemove)
     IN  obs' = [obs EXCEPT !.before = obs.policy, !.call = "simulate", !.res = res,
                            !.entry = Detail("simulated", res)]
  /\ UNCHANGED <<runVars, rs>>

ChecksNext == ChecksApply \/ ChecksSimulate

SpecChecks == ChecksInit /\ [][ChecksNext]_vars

\* ----------------------------------------------------------- SpecSanitize
\* An error message is a sequence of atoms: a run of n letters and digits
\* that spells nothing (run), the words the patterns look for (ghp, github,
\* pat, Bearer, Authorization), single characters, and the two markers the
\* replacements put in.
Run(n) == [t |-> "run", n |-> n]
Word(t) == [t |-> t, n |-> Len(t)]
Char(t) == [t |-> t, n |-> 1]
RedactedToken == [t |-> "[REDACTED_TOKEN]", n |-> 0]
Redacted == [t |-> "[REDACTED]", n |-> 0]
UnknownError == [t |-> "Unknown error", n |-> 0]

\* [a-zA-Z0-9] and [a-zA-Z0-9._-]
IsAlnum(a) == a.t \in {"run", "ghp", "github", "pat", "Bearer", "Authorization"}
IsClass(a) == IsAlnum(a) \/ a.t \in {"_", ".", "-"}

\* [a-zA-Z0-9]{n} at the head of m: the text that follows the n characters.
RECURSIVE TakeAlnum(_, _)
TakeAlnum(m, n) ==
  IF n = 0 THEN [ok |-> TRUE, rest |-> m]
  ELSE IF m = <<>> \/ ~IsAlnum(Head(m)) THEN [ok |-> FALSE, rest |-> <<>>]
  ELSE IF Head(m).n <= n THEN TakeAlnum(Tail(m), n - Head(m).n)
  ELSE [ok |-> TRUE, rest |-> <<Run(Head(m).n - n)>> \o Tail(m)]

\* [a-zA-Z0-9._-]+ at the head of m (greedy): the text that follows it.
RECURSIVE DropClass(_)
DropClass(m) == IF m # <<>> /\ IsClass(Head(m)) THEN DropClass(Tail(m)) ELSE m

TakeClass(m) ==
  IF m # <<>> /\ IsClass(Head(m)) THEN [ok |-> TRUE, rest |-> DropClass(m)]
  ELSE [ok |-> FALSE, rest |-> <<>>]

\* m starts with the atoms of the literal lit.
StartsWith(m, lit) == Len(m) >= Len(lit) /\ SubSeq(m, 1, Len(lit)) = lit
After(m, lit) == SubSeq(m, Len(lit) + 1, Len(m))

GhpPrefix == <<Word("ghp"), Char("_")>>
PatPrefix == <<Word("github"), Char("_"), Word("pat"), Char("_")>>
BearerPrefix == <<Word("Bearer"), Char(" ")>>
AuthPrefix == <<Word("Authorization"), Char(":"), Char(" ")>>

\* The four patterns matched at the head of m: whether they match, the text
\* after the match, and what the match is replaced with.
\*   1  /ghp_[a-zA-Z0-9]{36}/                          '[REDACTED_TOKEN]'
\*   2  /github_pat_[a-zA-Z0-9]{22}_[a-zA-Z0-9]{59}/   '[REDACTED_TOKEN]'
\*   3  /Bearer [a-zA-Z0-9._-]+/                       'Bearer [REDACTED]'
\*   4  /Authorization: [a-zA-Z0-9._-]+/               'Authorization: [REDACTED]'
NoMatch == [ok |-> FALSE, rest |-> <<>>]
MatchAt(m, pat) ==
  IF pat = 1
  THEN IF StartsWith(m, GhpPrefix) THEN TakeAlnum(After(m, GhpPrefix), GhpTokenLen)
       ELSE NoMatch
  ELSE IF pat = 2
  THEN IF StartsWith(m, PatPrefix)
       THEN LET id == TakeAlnum(After(m, PatPrefix), PatIdLen)
            IN  IF id.ok /\ StartsWith(id.rest, <<Char("_")>>)
                THEN TakeAlnum(Tail(id.rest), PatSecretLen)
                ELSE NoMatch
       ELSE NoMatch
  ELSE IF pat = 3
  THEN IF StartsWith(m, BearerPrefix) THEN TakeClass(After(m, BearerPrefix)) ELSE NoMatch
  ELSE IF StartsWith(m, AuthPrefix) THEN TakeClass(After(m, AuthPrefix)) ELSE NoMatch

Replacement(pat) ==
  IF pat \in {1, 2} THEN <<RedactedToken>>
  ELSE IF pat = 3 THEN BearerPrefix \o <<Redacted>>
  ELSE AuthPrefix \o <<Redacted>>

\* Mutant: the pattern has no g flag, only its first match is replaced.
RECURSIVE ReplaceFirst(_, _)
ReplaceFirst(m, pat) ==
  IF m = <<>> THEN <<>>
  ELSE LET r == MatchAt(m, pat)
       IN  IF r.ok THEN Replacement(pat) \o r.rest
           ELSE <<Head(m)>> \o ReplaceFirst(Tail(m), pat)

\* String.prototype.replace with a g pattern: every match, from left to
\* right, the search going on after the end of each match.
RECURSIVE ReplaceAll(_, _)
ReplaceAll(m, pat) ==
  IF m = <<>> THEN <<>>
  ELSE LET r == MatchAt(m, pat)
       IN  IF r.ok THEN Replacement(pat) \o ReplaceAll(r.rest, pat)
           ELSE <<Head(m)>> \o ReplaceAll(Tail(m), pat)

\* sanitizeErrorForLogging(error).message: the four replacements in a row.
Sanitize(m) == ReplaceAll(ReplaceAll(ReplaceAll(ReplaceAll(m, 1), 2), 3), 4)

\* error: sanitizedError.message || 'Unknown error'
StoredError(m) == IF Sanitize(m) = <<>> THEN <<UnknownError>> ELSE Sanitize(m)

\* The error messages: up to MaxMsgLen pieces, each a pattern's literal
\* prefix, a run of letters and digits, an underscore or a space.
RunLens == {22, 30, 36, 59}
Pieces ==
  {GhpPrefix, PatPrefix, BearerPrefix, AuthPrefix, <<Char("_")>>, <<Char(" ")>>}
    \cup {<<Run(n)>> : n \in RunLens}

RECURSIVE Flatten(_)
Flatten(ps) == IF ps = <<>> THEN <<>> ELSE Head(ps) \o Flatten(Tail(ps))

Messages == {Flatten(ps) : ps \in UNION {[1..k -> Pieces] : k \in 0..MaxMsgLen}}

\* obs: the message of the caught error and the text stored in the entry.
SanitizeInit ==
  /\ pc = "caught"
  /\ conc = 1 /\ dryRun = FALSE /\ reporting = TRUE /\ customChecks = FALSE
  /\ validRepos = <<1>> /\ i = 0 /\ updatedRepos = 0
  /\ batches = 0 /\ delays = 0 /\ task = <<>> /\ reportData = <<>>
  /\ report = NoReport
  /\ rs = IdleRetry
  /\ \E m \in Messages : obs = [message |-> m, stored |-> <<>>]

\* The catch block of processRepository pushes the 'error' entry.
PushErrorEntry ==
  /\ pc = "caught"
  /\ pc' = "pushed"
  /\ obs' = [obs EXCEPT !.stored = StoredError(obs.message)]
  /\ UNCHANGED <<conc, dryRun, reporting, customChecks, validRepos, i, updatedRepos,
                 batches, delays, task, reportData, report, rs>>

SpecSanitize == SanitizeInit /\ [][PushErrorEntry]_vars

\* --------------------------------------------------------------- SpecItem
\* One processRepository call on its own, for any answer of the API to each
\* of its calls.  obs records the operation the latest call belongs to
\* (lookup, simulate, apply), the error it was answered with, the number of
\* invocations of that operation so far, the simulate and write calls made,
\* and whether every call so far was answered without an error (clean).
ItemErrors == Errors \ {TypeError}
ItemGetResponses == {Ok(h) : h \in BOOLEAN} \cup {Failed(e) : e \in ItemErrors}
ItemPutResponses == {Ok(FALSE)} \cup {Failed(e) : e \in ItemErrors}

IdleItemObs ==
  [op |-> "none", err |-> NoError, invocations |-> 0, sims |-> 0, writes |-> 0,
   clean |-> TRUE]

\* The operation op is invoked and its first call is answered with err.
Invoked(o, op, err) ==
  [o EXCEPT !.op = op, !.err = err,
            !.invocations = IF o.op = op THEN @ + 1 ELSE 1,
            !.clean = @ /\ err = NoError]

ItemInit ==
  /\ pc = "item"
  /\ conc = 1
  /\ dryRun \in BOOLEAN
  /\ reporting \in BOOLEAN
  /\ customChecks \in BOOLEAN
  /\ validRepos = <<1>>
  /\ i = 0
  /\ updatedRepos = 0
  /\ batches = 0
  /\ delays = 0
  /\ task = <<StartTask(IdleTask)>>
  /\ reportData = <<>>
  /\ report = NoReport
  /\ rs = IdleRetry
  /\ obs = IdleItemObs

ItemStep(out, o) ==
  /\ task' = [task EXCEPT ![1] = out.task]
  /\ reportData' = IF reporting THEN reportData \o out.push ELSE reportData
  /\ obs' = o
  /\ UNCHANGED <<pc, conc, dryRun, reporting, customChecks, validRepos, i,
                 updatedRepos, batches, delays, report, rs>>

ItemThrottleElapses ==
  /\ task[1].pc = "throttle"
  /\ ItemStep(Out(AfterThrottle(task[1]), <<>>), obs)

ItemLookupCall ==
  /\ task[1].pc = "lookup"
  /\ \E resp \in ItemGetResponses :
       ItemStep(LookupReturns(task[1], validRepos[1], resp),
                Invoked(obs, "lookup", resp.err))

ItemLookupWait ==
  /\ task[1].pc = "lookupWait"
  /\ ItemStep(WaitDone(task[1], validRepos[1], "lookup"), obs)

ItemSimulateCall ==
  /\ task[1].pc = "simulate"
  /\ \E resp \in ItemGetResponses :
       ItemStep(SimulateReturns(task[1], validRepos[1], resp),
                [Invoked(obs, "simulate", resp.err) EXCEPT !.sims = @ + 1])

ItemApplyGetCall ==
  /\ task[1].pc = "applyGet"
  /\ \E resp \in ItemGetResponses :
       ItemStep(ApplyGetReturns(task[1], validRepos[1], resp),
                Invoked(obs, "apply", resp.err))

ItemApplyPutCall ==
  /\ task[1].pc = "applyPut"
  /\ \E resp \in ItemPutResponses :
       ItemStep(ApplyPutReturns(task[1], validRepos[1], resp),
                [obs EXCEPT !.err = resp.err, !.writes = @ + 1,
                            !.clean = @ /\ resp.ok])

ItemApplyWait ==
  /\ task[1].pc = "applyWait"
  /\ ItemStep(WaitDone(task[1], validRepos[1], "applyGet"), obs)

ItemNext ==
  \/ ItemThrottleElapses
  \/ ItemLookupCall
  \/ ItemLookupWait
  \/ ItemSimulateCall
  \/ ItemApplyGetCall
  \/ ItemApplyPutCall
  \/ ItemApplyWait

SpecItem == ItemInit /\ [][ItemNext]_vars

\* ================================================================ claims
N == Len(validRepos)

\* The report entries that describe repository t.
EntriesOf(t) == {k \in 1..Len(reportData) : reportData[k].repository = validRepos[t]}

\* The tasks that started and did not settle yet.
InFlight == {t \in DOMAIN task : task[t].pc \notin {"idle", "done"}}

\* The number of the batch repository t belongs to (0, 1, ...).
BatchIndex(t) == (t - 1) \div MAX_CONCURRENCY

CeilDiv(n, c) == (n + c - 1) \div c

Waiting(t) == task[t].pc \in {"lookupWait", "applyWait"}

\* C1: once the run is done and a report was asked for, details[k] describes
\* validRepos[k] for every k, whatever the completion order inside a batch.
C1_OrderPreserved ==
  (pc = "done" /\ reporting) =>
    /\ Len(report.details) = N
    /\ \A k \in 1..N : report.details[k].repository = validRepos[k]

\* C2: with reporting on, no repository ever has two report entries, a settled
\* repository has exactly one, and a finished run's details hold exactly one
\* entry per repository, on every path and after any number of retries.
C2_ExactlyOneOutcome ==
  reporting =>
    /\ \A t \in DOMAIN task :
         /\ Cardinality(EntriesOf(t)) <= 1
         /\ task[t].pc = "done" => Cardinality(EntriesOf(t)) = 1
    /\ pc = "done" =>
         /\ report.details = reportData
         /\ Len(report.details) = N

\* C2 witness: one repository has its 'updated' entry while another one, whose
\* apply call was retried at least twice, is in the retried operation again
\* and has no entry.
C2_Witness ==
  /\ reporting
  /\ \E s, t \in DOMAIN task :
       /\ task[s].status = "updated" /\ Cardinality(EntriesOf(s)) = 1
       /\ task[t].pc = "applyPut" /\ task[t].rs.retries >= 2
       /\ EntriesOf(t) = {}

\* C3: in every written report the counts of updated, simulated, skipped and
\* errored repositories add up to the total, which is the number of details.
C3_SummarySums ==
  report.written =>
    /\ report.repositoriesUpdated + CountStatus(report.details, "simulated")
         + report.repositoriesSkipped + report.repositoriesWithErrors
       = report.totalRepositories
    /\ report.totalRepositories = Len(report.details)

\* C4: the count the run reports as updated is the number of repositories
\* whose outcome is 'updated'; a skipped repository is not counted.
C4_UpdatedCountsUpdated ==
  pc = "done" =>
    updatedRepos = Cardinality({t \in DOMAIN task : task[t].status = "updated"})

\* C5: at most MAX_CONCURRENCY repositories are in flight in every state, and
\* a finished run has launched exactly ceil(N / MAX_CONCURRENCY) batches.
C5_BoundedConcurrency ==
  /\ Cardinality(InFlight) <= MAX_CONCURRENCY
  /\ batches <= CeilDiv(N, MAX_CONCURRENCY)
  /\ pc = "done" => batches = CeilDiv(N, MAX_CONCURRENCY)

\* C5 witness: three repositories at concurrency 2 ended after two batches.
C5_Witness == pc = "done" /\ N = 3 /\ conc = 2 /\ batches = 2

\* C6: a repository of a later batch has not started while a repository of an
\* earlier batch is unsettled, retry and rate-limit waits included.
C6_BatchBarrier ==
  \A s, t \in DOMAIN task :
    (BatchIndex(s) < BatchIndex(t) /\ task[t].pc # "idle") => task[s].pc = "done"

\* C6 witness: a batch with one repository settled and another one in a retry
\* wait, while the next batch's repository is still idle.
C6_Witness ==
  \E s, t, u \in DOMAIN task :
    /\ BatchIndex(s) = BatchIndex(u) /\ BatchIndex(s) < BatchIndex(t)
    /\ task[u].pc = "done" /\ Waiting(s) /\ task[s].rs.retries >= 1
    /\ task[t].pc = "idle"

\* C7: a repository whose processing ended in an error resolves to false with
\* the status 'error' and an 'error' entry, the run is not aborted, and a
\* finished run holds an outcome for every repository.
C7_Bulkhead ==
  /\ \A t \in DOMAIN task :
       (task[t].pc = "done" /\ task[t].result # "true") =>
         /\ task[t].result = "false" /\ task[t].status = "error"
         /\ reporting => \E k \in EntriesOf(t) : reportData[k].status = "error"
  /\ N > 0 => pc # "exit"
  /\ pc = "done" => \A t \in DOMAIN task : task[t].pc = "done" /\ task[t].status # "none"

\* C7 witness: a finished run in which a repository errored while a sibling of
\* its batch and a repository of the next batch were updated.
C7_Witness ==
  /\ pc = "done"
  /\ \E s, t, u \in DOMAIN task :
       /\ s # t /\ BatchIndex(s) = BatchIndex(t) /\ BatchIndex(s) < BatchIndex(u)
       /\ task[s].status = "error"
       /\ task[t].status = "updated" /\ task[u].status = "updated"

\* C8: after k retryable failures and a success, with maxRetries >= k, the
\* call returns the operation's value after exactly k + 1 invocations; it
\* throws after retryable failures only when they outnumber maxRetries.
C8_RetrySuccess ==
  /\ rs.pc = "returned" =>
       /\ rs.value = obs.result /\ obs.result \in Values
       /\ obs.calls = obs.failures + 1
       /\ obs.failures <= rs.maxRetries
  /\ (rs.pc = "threw" /\ obs.transientOnly) => obs.failures > rs.maxRetries

\* C8 witness: the call returned after as many failures as maxRetries allows.
C8_Witness ==
  /\ rs.pc = "returned" /\ rs.maxRetries = MaxMaxRetries
  /\ obs.failures = rs.maxRetries /\ obs.calls = rs.maxRetries + 1

\* C9: the operation is invoked at most maxRetries + 1 times, whatever the
\* failures are; a wait for a rate-limit reset counts as a retry.
C9_AttemptBound == obs.calls <= rs.maxRetries + 1

\* C9 witness: the call gave up after maxRetries + 1 invocations, the last
\* failure being a rate-limit error with a reset time.
C9_Witness ==
  /\ rs.pc = "threw" /\ rs.maxRetries >= 2 /\ obs.calls = rs.maxRetries + 1
  /\ rs.retries > rs.maxRetries /\ obs.last = RateLimit429Reset

\* The call gave up because the retries were used up.
Exhausted == rs.pc = "threw" /\ rs.retries > rs.maxRetries

NamedNonRetryable(e) ==
  e.status \in {404, 422} \/ (e.status = 403 /\ ~e.rateLimitMsg) \/ e.status = 0

\* The catch block holds the operation's latest failure.
Caught == obs.failures > 0 /\ rs.lastError = obs.last

\* C11: when the operation fails with a 404, a 422, a permission 403 or an
\* error without a status, the call rethrows that error at once, with no wait
\* and no further invocation, whatever headers the error carries.
C11_NonRetryablePropagates ==
  (Caught /\ NamedNonRetryable(obs.last)) =>
    (rs.pc = "threw" /\ rs.thrown = obs.last /\ rs.waitMs = 0)

\* C12 as claimed: the wait for a rate limit with a reset time is
\* max(resetTime - now, 0) + 1000 ms, reset times in the past included.
C12_WaitIsClampedPlusBuffer ==
  (rs.pc = "wait" /\ obs.last.hasReset) =>
    rs.waitMs = (IF obs.last.resetIn > 0 THEN obs.last.resetIn ELSE 0) + 1000

\* C12 as amended: the wait is resetTime - now + 1000 ms when that is
\* positive, so less than 1000 ms for a reset less than a second ago, and
\* one minute when the reset time is a second or more in the past.
C12_WaitOrFallback ==
  (rs.pc = "wait" /\ obs.last.hasReset) =>
    /\ rs.waitMs > 0
    /\ obs.last.resetIn > -1000 => rs.waitMs - obs.last.resetIn = 1000
    /\ obs.last.resetIn <= -1000 => rs.waitMs = 60000

\* C12 witness: the call waits one minute for a reset two seconds ago.
C12_Witness ==
  rs.pc = "wait" /\ obs.last = RateLimit429LongPast /\ rs.waitMs = 60000

\* C13: the invocation that follows a rate-limit failure whose reset time is
\* 5000 ms ahead happens 6000 ms or more after the failure, and nothing is
\* invoked while the call waits.
C13_QuietInterval ==
  [][/\ (obs'.calls > obs.calls /\ obs.failures > 0 /\ obs.last.hasReset
           /\ obs.last.resetIn = 5000) => obs.elapsed >= 5000 + 1000
     /\ rs.pc = "wait" => obs'.calls = obs.calls]_vars

\* C13 witness: the second invocation succeeded 6000 ms after the first one
\* hit a rate limit that resets in 5000 ms.
C13_Witness ==
  /\ rs.pc = "returned" /\ obs.calls = 2 /\ obs.failures = 1
  /\ obs.last = RateLimit403Reset /\ obs.elapsed = 6000

\* C14: the wait after a rate-limit failure without reset time or a transient
\* upstream failure is initialDelay * 2^k, k being the number of failures of
\* this call before that one, and nothing is added to it.
C14_ExponentialBackoff ==
  (rs.pc = "wait" /\ ~obs.last.hasReset) =>
    /\ obs.last.status \in {403, 502, 503, 504}
    /\ rs.waitMs = rs.initialDelay * (2 ^ (obs.failures - 1))

\* C14 witness: the fourth failure in a row, a bad gateway, is followed by a
\* wait of eight times the initial delay.
C14_Witness ==
  /\ rs.pc = "wait" /\ obs.failures = 4 /\ obs.last = BadGateway502
  /\ rs.initialDelay = INITIAL_BACKOFF_DELAY /\ rs.waitMs = 8000

\* The one repository of SpecItem has its outcome.
Settled == task[1].pc = "done"

\* A rate-limit failure or a transient upstream failure.
IsRateLimitOrTransient(e) ==
  e.status = 429 \/ (e.status = 403 /\ e.rateLimitMsg) \/ e.status \in {502, 503, 504}

\* A 403 that is not a rate limit: permission denied, upgrade required.
IsPermissionDenied(e) == e.status = 403 /\ ~e.rateLimitMsg

\* C15: a rate-limit or transient upstream failure of the lookup, of the
\* simulate call or of the apply call settles the repository only when the
\* operation it belongs to has been invoked MAX_RETRIES + 1 times.
C15_RemoteCallsRetried ==
  (Settled /\ IsRateLimitOrTransient(obs.err)) => obs.invocations = MAX_RETRIES + 1

\* C16: a call answered with a permission-denied 403 settles the repository
\* with the outcome 'error'.
C16_PermissionIsError ==
  IsPermissionDenied(obs.err) => (Settled /\ task[1].status = "error")

\* C17 as claimed: in a dry run no apply call is made and every settled
\* repository is 'skipped' or 'simulated'.
C17_DryRunAllSimulated ==
  dryRun =>
    \A t \in DOMAIN task :
      /\ task[t].pc \notin {"applyGet", "applyPut", "applyWait"}
      /\ task[t].pc = "done" => task[t].status \in {"skipped", "simulated"}

\* C17 as amended: in a dry run no apply call is made, nothing is written and
\* no repository is 'updated'; a settled repository is 'skipped', 'simulated'
\* or, after a failure, 'error'.
C17_DryRunNoWrite ==
  dryRun =>
    \A t \in DOMAIN task :
      /\ task[t].pc \notin {"applyGet", "applyPut", "applyWait"}
      /\ ~task[t].wrote
      /\ task[t].pc = "done" => task[t].status \in {"skipped", "simulated", "error"}

\* C17 witness: a finished dry run of three repositories, two of them
\* simulated and one ended in an error.
C17_Witness ==
  /\ dryRun /\ pc = "done" /\ N = 3
  /\ task[1].status = "simulated" /\ task[2].status = "error"
  /\ task[3].status = "simulated"

\* C18: when the lookup is answered with 'not found', the repository is
\* 'skipped', its entry carries a reason string, and neither simulate nor
\* apply is called for it.
C18_NotFoundSkipped ==
  (obs.op = "lookup" /\ obs.err.status = 404) =>
    /\ Settled /\ task[1].status = "skipped" /\ task[1].result = "true"
    /\ obs.sims = 0 /\ obs.writes = 0 /\ ~task[1].wrote
    /\ reporting =>
         /\ Len(reportData) = 1
         /\ reportData[1].status = "skipped" /\ reportData[1].reason = SkippedReason

\* C18 witness: the third invocation of the lookup, after two transient
\* failures, is answered with 'not found' and the repository is skipped.
C18_Witness ==
  /\ Settled /\ obs.op = "lookup" /\ obs.err = NotFound404 /\ obs.invocations = 3
  /\ reporting /\ task[1].status = "skipped"

\* C19: with a concurrency of 0 or less the run ends in a configuration
\* error: no batch is launched, no repository is processed, the scheduler
\* loop is never entered.
C19_NonPositiveRejected ==
  conc <= 0 =>
    /\ batches = 0
    /\ \A t \in DOMAIN task : task[t].pc = "idle"
    /\ pc \notin {"await", "batchDelay", "done"}

\* The call that lists the repositories failed.
ListingFailed == obs.failures > 0

\* C20: when the listing call fails, the run ends in the fatal exit, not in
\* the return taken for an empty list.
C20_ListingFailureFatal == ListingFailed => pc = "exit"

\* The run is over: report written or not asked for, fatal exit, or the
\* return taken when there is nothing to process.
Ended == pc \in {"done", "exit", "returned"}

C22_DefaultChecksUpdated ==
  (~customChecks /\ ~dryRun /\ Settled /\ obs.clean) =>
    (task[1].status = "updated" /\ task[1].result = "true")

\* C23: the changes of an 'updated' entry are exactly the checks the policy
\* had before the update and has no more after it, and its remaining checks
\* are the checks of the written policy.
C23_UpdatedDetailIsApplied ==
  (obs.call = "apply" /\ obs.entry.status = "updated") =>
    /\ obs.entry.changes.defined /\ obs.entry.checksRemaining.defined
    /\ Range(obs.entry.changes.list) = Range(obs.before.checks) \ Range(obs.policy.checks)
    /\ obs.entry.checksRemaining.list = obs.policy.checks

\* C24: a 'simulated' entry carries a defined list of the checks that would
\* be removed and a defined list of the checks that would remain.
C24_SimulatedDetailDefined ==
  (obs.call = "simulate" /\ obs.entry.status = "simulated") =>
    (obs.entry.changes.defined /\ obs.entry.checksRemaining.defined)

\* C30: a removal call that follows another one with the same removal list
\* writes the policy the first one wrote.
C30_Idempotent ==
  (obs.call = "apply" /\ obs.applies >= 2 /\ obs.res.wrote) =>
    (obs.res.written = obs.first /\ obs.policy = obs.first /\ obs.before = obs.first)

\* C30 witness: the second removal call on a policy from which the first one
\* took a check out and left another one.
C30_Witness ==
  /\ obs.call = "apply" /\ obs.applies = 2 /\ obs.res.wrote /\ ~obs.res.threw
  /\ obs.initial = StatusChecks(<<"Lint", "CI Build">>)
  /\ obs.policy = StatusChecks(<<"CI Build">>)
  /\ obs.checksToRemove = CustomChecks(<<"Lint">>)

\* Some pattern of a token matches somewhere in the text m.
RECURSIVE HasToken(_)
HasToken(m) ==
  /\ m # <<>>
  /\ \/ \E pat \in 1..4 : MatchAt(m, pat).ok
     \/ HasToken(Tail(m))

\* C25: the error text of an 'error' entry holds no ghp_ token, no github_pat_
\* token, no 'Bearer <value>' and no 'Authorization: <value>', whatever the
\* original message held.
C25_StoredErrorHasNoToken == pc = "pushed" => ~HasToken(obs.stored)

\* C25 witness: a message of two ghp_ tokens is stored as two markers.
C25_Witness ==
  /\ pc = "pushed"
  /\ obs.message = GhpPrefix \o <<Run(36)>> \o GhpPrefix \o <<Run(36)>>
  /\ obs.stored = <<RedactedToken, RedactedToken>>

\* C26: a repository has its entry in the shared report only when every
\* repository of its batch has settled.
C26_AppendAfterBatch ==
  \A s, t \in DOMAIN task :
    (EntriesOf(t) # {} /\ BatchIndex(s) = BatchIndex(t)) => task[s].pc = "done"

\* C27: the scheduler is in the inter-batch delay only while a batch remains
\* to be launched, one delay has been started per batch launched but the last,
\* and a finished run of N >= 1 repositories has waited ceil(N / C) - 1 times.
C27_InterBatchDelay ==
  /\ pc = "batchDelay" =>
       /\ \E t \in DOMAIN task : task[t].pc = "idle"
       /\ delays = batches
  /\ (pc # "batchDelay" /\ batches > 0) => delays = batches - 1
  /\ batches = 0 => delays = 0
  /\ (pc = "done" /\ N >= 1) => delays = CeilDiv(N, MAX_CONCURRENCY) - 1

\* C27 witness: three repositories, one at a time, finished after two delays.
C27_Witness == pc = "done" /\ N = 3 /\ conc = 1 /\ batches = 3 /\ delays = 2

\* C28: on an empty list the scheduler launches no batch and no task, starts
\* no delay, and returns 0 with nothing added to the report.
C28_EmptyInput ==
  (N = 0 /\ pc \in {"await", "batchDelay", "done"}) =>
    /\ pc = "done" /\ batches = 0 /\ delays = 0 /\ task = <<>>
    /\ updatedRepos = 0 /\ reportData = <<>>
    /\ reporting => (report.written /\ report.details = <<>>
                     /\ report.repositoriesUpdated = 0)

\* C28 witness: a run whose list holds no well-formed repository ended with
\* an empty report.
C28_Witness ==
  /\ pc = "done" /\ N = 0 /\ reporting /\ report.written
  /\ report.totalRepositories = 0 /\ batches = 0

\* The listing has been returned and holds a malformed repository.
MalformedListed == Len(obs.listing) > 0

\* C29 as claimed: a listing with a malformed repository ends the run with a
\* fatal error before any batch starts.
C29_MalformedFatal == MalformedListed => (pc = "exit" /\ batches = 0)

\* C29 as amended: the malformed repositories are left out and the run goes
\* on with the well-formed ones, in the order of the listing; it is not
\* aborted, and the report counts the well-formed repositories only.
C29_MalformedSkipped ==
  MalformedListed =>
    /\ pc # "exit"
    /\ \A k \in 1..Len(obs.listing) :
         WellFormed(obs.listing[k]) <=> (\E t \in DOMAIN validRepos : validRepos[t] = k)
    /\ \A s, t \in DOMAIN validRepos : s < t => validRepos[s] < validRepos[t]
    /\ Len(task) = N
    /\ pc = "done" =>
         /\ \A t \in DOMAIN task : task[t].pc = "done"
         /\ report.written => report.totalRepositories = N

\* C29 witness: of three listed repositories the second has no default
\* branch; the run finished with the first and the third simulated.
C29_Witness ==
  /\ pc = "done" /\ reporting
  /\ obs.listing = <<Repo(TRUE, TRUE), Repo(TRUE, FALSE), Repo(TRUE, TRUE)>>
  /\ validRepos = <<1, 3>>
  /\ \A t \in DOMAIN task : task[t].status = "simulated"

\* ------------------------------------------------ SpecToken: the start-up
\* The run from the start of the process: validateEnvironmentVariables on the
\* configured token, owner and repository, GitHubClient.validateToken on the
\* answer of users.getAuthenticated, validateToken of index.js on its result,
\* and then the listing and the scheduler of Next.
Unauthorized401 == Err("HttpError", 401, FALSE, 0, FALSE)
TokenErrors == Errors \cup {Unauthorized401}

\* The x-ratelimit-remaining header of a failed response.
RemainingHeaders == {"absent", "0", "57"}
Logins == {"octocat"}

\* What users.getAuthenticated settles with: { data: { login } }, a response
\* without data, or an error.
Resolved(hasData, login) ==
  [ok |-> TRUE, hasData |-> hasData, login |-> login, err |-> NoError,
   remaining |-> "absent"]
Rejected(e, remaining) ==
  [ok |-> FALSE, hasData |-> FALSE, login |-> NoValue, err |-> e,
   remaining |-> remaining]
NoResponse == Rejected(NoError, "absent")
Responses ==
  {Resolved(TRUE, l) : l \in Logins} \cup {Resolved(FALSE, NoValue)}
    \cup {Rejected(e, h) : e \in TokenErrors, h \in RemainingHeaders}

\* The error text of a result: a fixed text, or a text ending in the message
\* of the error it was made from.
ErrorText(text, of) == [text |-> text, of |-> of]
NoErrorText == ErrorText("", NoError)
InvalidOrExpired == ErrorText("Invalid or expired GitHub token", NoError)
RateLimitExceeded == ErrorText("GitHub API rate limit exceeded", NoError)
ValidationFailed(e) == ErrorText("Token validation failed: ", e)

TokenResult(valid, user, error) ==
  [threw |-> FALSE, valid |-> valid, user |-> user, error |-> error]
NoTokenResult == [threw |-> FALSE, valid |-> FALSE, user |-> NoValue, error |-> NoErrorText]

\* The catch block of GitHubClient.validateToken on the error it caught.
TokenFailureGeneric(error, remaining) ==
  TokenResult(FALSE, NoValue, ValidationFailed(error))

TokenFailure(error, remaining) ==
  IF error.status = 401 THEN TokenResult(FALSE, NoValue, InvalidOrExpired)
  ELSE IF error.status = 403 /\ remaining = "0"
       THEN TokenResult(FALSE, NoValue, RateLimitExceeded)
  ELSE TokenResult(FALSE, NoValue, ValidationFailed(error))

\* GitHubClient.validateToken: reading data.login of a response without data
\* throws a TypeError inside the try block.
ClientValidateToken(resp) ==
  IF resp.ok /\ resp.hasData THEN TokenResult(TRUE, resp.login, NoErrorText)
  ELSE IF resp.ok THEN TokenFailure(TypeError, "absent")
  ELSE TokenFailure(resp.err, resp.remaining)

\* validateToken of index.js: true for result.valid, false otherwise and for
\* anything client.validateToken throws.
ValidateTokenAcceptsAll(result) == TRUE

ValidateToken(result) == IF result.threw THEN FALSE ELSE result.valid

\* /^ghp_[a-zA-Z0-9]{36}$/ and /^github_pat_[a-zA-Z0-9]{22}_[a-zA-Z0-9]{59}$/
GhpFormat(tok) ==
  /\ StartsWith(tok, GhpPrefix)
  /\ LET r == TakeAlnum(After(tok, GhpPrefix), GhpTokenLen) IN r.ok /\ r.rest = <<>>
PatFormat(tok) ==
  /\ StartsWith(tok, PatPrefix)
  /\ LET a == TakeAlnum(After(tok, PatPrefix), PatIdLen) IN
       /\ a.ok /\ StartsWith(a.rest, <<Char("_")>>)
       /\ LET b == TakeAlnum(After(a.rest, <<Char("_")>>), PatSecretLen) IN
            b.ok /\ b.rest = <<>>
\* /^[a-zA-Z0-9][-a-zA-Z0-9]*$/ and /^[a-zA-Z0-9._-]+$/
OwnerFormat(o) ==
  /\ o # <<>> /\ IsAlnum(Head(o))
  /\ \A k \in DOMAIN o : IsAlnum(o[k]) \/ o[k].t = "-"
RepoFormat(r) == r # <<>> /\ \A k \in DOMAIN r : IsClass(r[k])

\* TOKEN, OWNER and SPECIFIC_REPO as configured (<<>>: not given).
Tokens ==
  {<<>>, GhpPrefix \o <<Run(36)>>, GhpPrefix \o <<Run(30)>>,
   GhpPrefix \o <<Run(36), Char("-")>>, <<Char(" ")>> \o GhpPrefix \o <<Run(36)>>,
   PatPrefix \o <<Run(22), Char("_"), Run(59)>>,
   PatPrefix \o <<Run(22), Char("_"), Run(36)>>}
Owners == {<<>>, <<Run(4)>>, <<Run(4), Char("-"), Run(2)>>, <<Char("-"), Run(4)>>}
SpecificRepos == {<<>>, <<Run(4), Char("."), Run(2)>>, <<Run(4), Char("/"), Run(2)>>}
Environments == [token : Tokens, owner : Owners, repo : SpecificRepos]

ValidateEnvironmentVariables(env) ==
  IF env.token = <<>> THEN FALSE
  ELSE IF env.owner = <<>> THEN FALSE
  ELSE IF ~GhpFormat(env.token) /\ ~PatFormat(env.token) THEN FALSE
  ELSE IF ~OwnerFormat(env.owner) THEN FALSE
  ELSE IF env.repo # <<>> /\ ~RepoFormat(env.repo) THEN FALSE
  ELSE TRUE

TokenInit ==
  /\ pc = "env"
  /\ conc \in 1..MaxConc
  /\ reporting = TRUE
  /\ dryRun \in BOOLEAN
  /\ customChecks = ~dryRun
  /\ validRepos = <<>> /\ i = 0 /\ updatedRepos = 0
  /\ batches = 0 /\ delays = 0 /\ task = <<>> /\ reportData = <<>>
  /\ report = NoReport
  /\ rs = IdleRetry
  /\ \E env \in Environments :
       obs = [env |-> env, response |-> NoResponse, result |-> NoTokenResult]

\* if (!validateEnvironmentVariables()) process.exit(1), then run().
EnvironmentChecked ==
  /\ pc = "env"
  /\ pc' = IF ValidateEnvironmentVariables(obs.env) THEN "token" ELSE "exit"
  /\ UNCHANGED <<conc, dryRun, reporting, customChecks, validRepos, i,
                 updatedRepos, batches, delays, task, reportData, report, rs, obs>>

\* users.getAuthenticated settled and client.validateToken returned.
ClientValidateTokenReturns ==
  /\ pc = "token"
  /\ \E resp \in Responses :
       obs' = [obs EXCEPT !.response = resp, !.result = ClientValidateToken(resp)]
  /\ pc' = "tokenResult"
  /\ UNCHANGED <<conc, dryRun, reporting, customChecks, validRepos, i,
                 updatedRepos, batches, delays, task, reportData, report, rs>>

\* validateToken returned to run(): process.exit(1) on false, else the
\* listing is asked for.
TokenChecked ==
  /\ pc = "tokenResult"
  /\ IF ValidateToken(obs.result)
     THEN pc' = "list" /\ obs' = IdleObs
     ELSE pc' = "exit" /\ obs' = obs
  /\ UNCHANGED <<conc, dryRun, reporting, customChecks, validRepos, i,
                 updatedRepos, batches, delays, task, reportData, report, rs>>

TokenNext ==
  \/ EnvironmentChecked
  \/ ClientValidateTokenReturns
  \/ TokenChecked
  \/ ListReturns
  \/ BatchSettles
  \/ DelayElapses
  \/ \E t \in DOMAIN task : ThrottleElapses(t)
  \/ \E t \in DOMAIN task : LookupCall(t)
  \/ \E t \in DOMAIN task : LookupWait(t)
  \/ \E t \in DOMAIN task : SimulateCall(t)
  \/ \E t \in DOMAIN task : ApplyGetCall(t)
  \/ \E t \in DOMAIN task : ApplyPutCall(t)
  \/ \E t \in DOMAIN task : ApplyWait(t)

SpecToken == TokenInit /\ [][TokenNext]_vars

\* ---------------------------------------------------------------- C31..C40
AtStartup == pc \in {"env", "token", "tokenResult"}
TokenRefused == "result" \in DOMAIN obs /\ pc = "exit"

\* C31: validateToken of the client returns a result and never throws: valid
\* with the login when the authenticated-user call succeeds, the fixed
\* 'Invalid or expired GitHub token' result for a 401, and a result with
\* valid false and an error text for every other failure.
C31_ValidateTokenResult ==
  pc = "tokenResult" =>
    /\ ~obs.result.threw
    /\ (obs.response.ok /\ obs.response.hasData) =>
         obs.result = TokenResult(TRUE, obs.response.login, NoErrorText)
    /\ (~obs.response.ok /\ obs.response.err.status = 401) =>
         obs.result = TokenResult(FALSE, NoValue, InvalidOrExpired)
    /\ ~(obs.response.ok /\ obs.response.hasData) =>
         /\ obs.result.valid = FALSE
         /\ obs.result.error # NoErrorText

\* A 401 answered with an exhausted rate limit is still reported as the
\* invalid token.
C31_Witness ==
  /\ pc = "tokenResult"
  /\ obs.response = Rejected(Unauthorized401, "0")
  /\ obs.result.error = InvalidOrExpired

\* C37: no listing, lookup, simulate or apply call is made before
\* validateToken has returned valid, and a refused token (by its format or by
\* the API) ends the process with exit code 1 without any of those calls.
C37_TokenFirst ==
  [][/\ AtStartup =>
          UNCHANGED <<validRepos, i, updatedRepos, batches, delays, task, reportData, report>>
     /\ (pc' = "list" /\ pc # "list") =>
          (pc = "tokenResult" /\ ~obs.result.threw /\ obs.result.valid)
     /\ (pc = "env" /\ ~ValidateEnvironmentVariables(obs.env)) => pc' = "exit"
     /\ (pc = "tokenResult" /\ ~obs.result.valid) => pc' = "exit"
     /\ pc = "exit" => UNCHANGED vars]_vars

\* The API refused a well-formed token: the process has exited and nothing
\* was listed or scheduled.
C37_Witness ==
  /\ TokenRefused
  /\ ValidateEnvironmentVariables(obs.env)
  /\ obs.response = Rejected(Unauthorized401, "absent")
  /\ task = <<>> /\ validRepos = <<>>

\* C32: for every policy and removal set, the required_status_checks of the
\* simulated state that simulateRemovingChecks returns equals the
\* required_status_checks that removeChecksFromBranchProtection writes for
\* the same policy and removal set, a policy with an empty check list included.
C32_SimulateAgreesWithApply ==
  (obs.call = "simulate" /\ ~obs.checksToRemove.isNull /\ ~obs.res.threw) =>
    LET applied == RemoveChecks(obs.before, obs.checksToRemove)
    IN  applied.wrote => obs.res.written = applied.written

\* The indices of the read checks whose context is not in the removal set, and
\* the j-th of them.
KeptIndices(checks, removal) == {k \in DOMAIN checks : checks[k] \notin Range(removal)}
KthKept(checks, removal, j) ==
  CHOOSE k \in KeptIndices(checks, removal) :
    Cardinality({m \in KeptIndices(checks, removal) : m <= k}) = j

\* C34: the check list that removeChecksFromBranchProtection writes is the
\* read check list without the checks whose context is in the removal set, in
\* the original order; required_status_checks is written as null when no
\* check remains; no check outside the removal set is dropped.
C34_WrittenIsFiltered ==
  (obs.call = "apply" /\ obs.res.wrote /\ HasChecks(obs.before)) =>
    LET removal == ChecksToFilter(obs.checksToRemove.list)
        kept == KeptIndices(obs.before.checks, removal)
        w == obs.res.written
    IN  /\ w.present <=> kept # {}
        /\ Len(w.checks) = Cardinality(kept)
        /\ \A j \in DOMAIN w.checks :
             w.checks[j] = obs.before.checks[KthKept(obs.before.checks, removal, j)]
        /\ \A k \in DOMAIN obs.before.checks :
             obs.before.checks[k] \notin Range(removal) =>
               obs.before.checks[k] \in Range(w.checks)

\* Two checks read, the second one in the removal set: the first is written.
C34_Witness ==
  /\ obs.call = "apply"
  /\ obs.before = StatusChecks(<<"Lint", "CI Build">>)
  /\ obs.checksToRemove = CustomChecks(<<"CI Build">>)
  /\ obs.res.written = StatusChecks(<<"Lint">>)

\* C33: removeChecksFromBranchProtection issues no updateBranchProtection
\* write when its own protection lookup returned no policy (a 404 or a 403
\* turned into undefined): a policy that cannot be read at apply time is not
\* overwritten.
C33_NoWriteWithoutPolicy ==
  task[1].pc = "applyPut" => (obs.op = "apply" /\ obs.err = NoError)

\* C35: for every item whose recorded outcome is 'error', no
\* updateBranchProtection write for that item succeeded.
C35_ErrorMeansNothingWritten ==
  (task[1].pc = "done" /\ task[1].status = "error") => ~task[1].wrote

\* C36: in withExponentialBackoff every backoff or rate-limit wait is followed
\* by another invocation of the operation: while the call waits, an attempt
\* is left, and the failure of the attempt that uses up maxRetries is
\* propagated without a wait.
C36_NoWaitAfterLastAttempt ==
  rs.pc = "wait" => rs.retries < rs.maxRetries

\* ------------------------------------------- SpecThrown: any thrown value
\* One processRepository call whose remote calls may throw an error with any
\* kind of message field ('rate limit' is found in a string only).
ThrownErrors ==
  {WithMessage(e, k) : e \in {x \in ItemErrors : ~x.rateLimitMsg},
                       k \in MessageKinds \ {"string"}}
    \cup {Forbidden403, Validation422, Unavailable503}
ThrownGetResponses == {Ok(h) : h \in BOOLEAN} \cup {Failed(e) : e \in ThrownErrors}
ThrownPutResponses == {Ok(FALSE)} \cup {Failed(e) : e \in ThrownErrors}

ThrownInit ==
  /\ pc = "thrown"
  /\ conc = 1
  /\ dryRun \in BOOLEAN
  /\ reporting = TRUE
  /\ customChecks = TRUE
  /\ validRepos = <<1>>
  /\ i = 0
  /\ updatedRepos = 0
  /\ batches = 0
  /\ delays = 0
  /\ task = <<StartTask(IdleTask)>>
  /\ reportData = <<>>
  /\ report = NoReport
  /\ rs = IdleRetry
  /\ obs = IdleItemObs

ThrownLookupCall ==
  /\ task[1].pc = "lookup"
  /\ \E resp \in ThrownGetResponses :
       ItemStep(LookupReturns(task[1], validRepos[1], resp),
                Invoked(obs, "lookup", resp.err))

ThrownSimulateCall ==
  /\ task[1].pc = "simulate"
  /\ \E resp \in ThrownGetResponses :
       ItemStep(SimulateReturns(task[1], validRepos[1], resp),
                [Invoked(obs, "simulate", resp.err) EXCEPT !.sims = @ + 1])

ThrownApplyGetCall ==
  /\ task[1].pc = "applyGet"
  /\ \E resp \in ThrownGetResponses :
       ItemStep(ApplyGetReturns(task[1], validRepos[1], resp),
                Invoked(obs, "apply", resp.err))

ThrownApplyPutCall ==
  /\ task[1].pc = "applyPut"
  /\ \E resp \in ThrownPutResponses :
       ItemStep(ApplyPutReturns(task[1], validRepos[1], resp),
                [obs EXCEPT !.err = resp.err, !.writes = @ + 1,
                            !.clean = @ /\ resp.ok])

ThrownNext ==
  \/ ItemThrottleElapses
  \/ ThrownLookupCall
  \/ ItemLookupWait
  \/ ThrownSimulateCall
  \/ ThrownApplyGetCall
  \/ ThrownApplyPutCall
  \/ ItemApplyWait

SpecThrown == ThrownInit /\ [][ThrownNext]_vars

\* C38: for every error or thrown value raised by the lookup, simulate or
\* apply call, whatever the type of its message field, processRepository
\* resolves to false and records an 'error' outcome: its promise never
\* rejects.
C38_NeverRejects ==
  task[1].pc = "done" =>
    /\ task[1].result # "rejected"
    /\ task[1].result = "false" <=> task[1].status = "error"

ItemOf(entry) == CHOOSE t \in DOMAIN validRepos : validRepos[t] = entry.repository

\* C40: in the report details every entry of an item of batch k comes before
\* every entry of an item of a later batch, whatever the order in which the
\* items of a batch complete.
C40_BatchOrder ==
  /\ \A a, b \in 1..Len(reportData) :
       BatchIndex(ItemOf(reportData[a])) < BatchIndex(ItemOf(reportData[b])) => a < b
  /\ (pc = "done" /\ reporting) => report.details = reportData

\* Three items at concurrency 2: the second item completed before the first,
\* and the entry of the third item, of the second batch, follows both.
C40_Witness ==
  /\ pc = "done" /\ conc = 2 /\ reporting
  /\ Len(report.details) = 3
  /\ report.details[1].repository = validRepos[2]
  /\ report.details[2].repository = validRepos[1]
  /\ report.details[3].repository = validRepos[3]

====
